---- MODULE Spec2Model ----
(***************************************************************************)
(* Model of the audio capture / transcription pipeline of                  *)
(* src/renderer/src/pages/InterviewSessionPage.tsx.                        *)
(*                                                                         *)
(* The component runs on a single-threaded event loop.  Every action below *)
(* is one task of that loop: a click handler, a recorder event, a timer,   *)
(* or the continuation of an await (getUserMedia, blob.arrayBuffer,        *)
(* transcribeAudio, generateQuestion, evaluateAnswer).                     *)
(*                                                                         *)
(* The session list the page writes its results to is kept by              *)
(* src/renderer/src/App.tsx, together with its copy in localStorage.       *)
(***************************************************************************)
EXTENDS Integers, Sequences, FiniteSets, TLC

\* ---------------------------------------------------------------- bounds
MaxStarts == 2      \* start commands (getUserMedia calls) in one behaviour
MaxChunks == 2      \* non-empty chunks emitted by the recorders
MaxQuestions == 1   \* questions loaded successfully
MaxTimers == 1      \* retry timers pending at the same time

MaxAppends == 3     \* texts applied by the accumulator specification

MaxQueued == 3      \* chunks waiting behind the first call (queue specification)
MaxWaiting == 2     \* the same under fair scheduling (fair queue specification)

MaxSessions == 3    \* sessions in the session list (session specification)
MaxStored == 2      \* sessions found in localStorage at launch

\* ------------------------------------------------------ program constants
MIN_CHUNK_BYTES == 16000
MAX_ATTEMPTS == 3

\* Sizes of the blobs a dataavailable event may carry (0: an empty blob).
ChunkSizes == {0, 8000, 16000}

\* Texts the transcription service may resolve to.  The main process rejects
\* an empty text, so a resolved text is a non-empty string; it may be blank.
Texts == { <<" ", "a">> }

\* The texts the accumulator specification draws from: every string of one
\* or two characters over "a", "b" and the space, and one padded on both sides.
AccTexts ==
  LET A == {"a", "b", " "}
  IN {<<x>> : x \in A} \cup {<<x, y>> : x \in A, y \in A} \cup { <<" ", "a", " ">> }

StartIds == 1..MaxStarts

\* Sizes of the chunks of the queue specification.
QueuedSizes == {4000, 8000, 16000}

\* The results an evaluation may produce (question, answer and feedback).
Results == {"r1", "r2"}

\* The session lists an earlier run may have left in localStorage: sessions
\* numbered from the oldest, newest first, each with or without a result.
StoredLists ==
  UNION { { [i \in 1..n |-> [id |-> n + 1 - i, results |-> rs[i]]] :
              rs \in [1..n -> {<<>>, <<"r0">>}] } : n \in 0..MaxStored }

VARIABLES
  mounted,          \* the component is mounted
  recording,        \* useState recording
  loadingQuestion,  \* useState loadingQuestion
  question,         \* identity of currentQuestion (0: null)
  answerText,       \* useState answerText, a sequence of characters
  speechError,      \* useState speechError
  viewMode,         \* useState viewMode
  nStarts,          \* start commands issued so far
  startPc,          \* per start command: position of startRecording
  recState,         \* per recorder: MediaRecorder.state (+ queued stop task)
  live,             \* streams whose tracks have not been stopped
  mediaRecorderRef, \* mediaRecorderRef.current (0: null)
  activeStreamRef,  \* activeStreamRef.current (0: null)
  pendingChunksRef, \* pendingChunksRef.current
  transcribingRef,  \* transcribingRef.current
  calls,            \* drainTranscriptionQueue invocations awaiting transcribeAudio
  timers,           \* pending setTimeout(drainTranscriptionQueue, 800)
  nChunks,          \* number of non-empty chunks emitted so far
  sessions,         \* App: useState sessions, newest first
  localStorage,     \* App: the session list stored under STORAGE_KEY
  currentSessionId, \* App: useState currentSessionId (0: null)
  view,             \* App: useState view
  evaluations,      \* sessions whose page awaits evaluateAnswer (its evaluating flag)
  hist              \* history of the run (observations only; never read by the program)

vars == << mounted, recording, loadingQuestion, question,
           answerText, speechError, viewMode, nStarts, startPc, recState, live,
           mediaRecorderRef, activeStreamRef, pendingChunksRef, transcribingRef,
           calls, timers, nChunks,
           sessions, localStorage, currentSessionId, view, evaluations, hist >>

\* ------------------------------------------------------------ strings
RECURSIVE TrimLeft(_)
TrimLeft(s) == IF s # <<>> /\ Head(s) = " " THEN TrimLeft(Tail(s)) ELSE s

RECURSIVE TrimRight(_)
TrimRight(s) ==
  IF s # <<>> /\ s[Len(s)] = " " THEN TrimRight(SubSeq(s, 1, Len(s) - 1)) ELSE s

\* String.prototype.trim
Trim(s) == TrimRight(TrimLeft(s))

\* appendTranscript without the outer trim of line 108.
appendTranscript_noOuterTrim(prev, transcript) ==
  IF prev = <<>> THEN Trim(transcript)
  ELSE Trim(prev) \o <<" ">> \o Trim(transcript)

\* The updater replacing a non-empty transcript by the new text.
appendTranscript_overwrites(prev, transcript) ==
  IF prev = <<>> THEN Trim(transcript) ELSE transcript

\* The updater passed to setAnswerText on a successful transcription
\* (lines 106-109).
appendTranscript(prev, transcript) ==
  IF prev = <<>> THEN Trim(transcript)
  ELSE Trim(Trim(prev) \o <<" ">> \o Trim(transcript))

\* ------------------------------------------------------------ the queue
\* A chunk is [id, size]: ids number the non-empty chunks in emission order.
\* A queue record is [chunks, attempts]: the chunks concatenated in its blob.

\* Blob.size of a blob made of these chunks.
RECURSIVE BlobSize(_)
BlobSize(chunks) ==
  IF chunks = <<>> THEN 0 ELSE Head(chunks).size + BlobSize(Tail(chunks))

\* The loop without its size condition: it shifts every record.
TakeCount_wholeQueue(q, size) == Len(q)

\* The loop of lines 90-95 taking nothing, and no check of line 96.
TakeCount_takesNone(q, size) == 0

\* The while loop of drainTranscriptionQueue: how many records it shifts.
RECURSIVE TakeCount(_, _)
TakeCount(q, size) ==
  IF q # <<>> /\ size < MIN_CHUNK_BYTES
  THEN 1 + TakeCount(Tail(q), size + BlobSize(Head(q).chunks))
  ELSE 0

\* new Blob(chunks): the concatenation of the shifted blobs.
RECURSIVE ConcatChunks(_)
ConcatChunks(recs) ==
  IF recs = <<>> THEN <<>> ELSE Head(recs).chunks \o ConcatChunks(Tail(recs))

\* attempt = Math.max(attempt, attempts) over the shifted records.
RECURSIVE MaxAttempts(_)
MaxAttempts(recs) ==
  IF recs = <<>> THEN 0
  ELSE LET m == MaxAttempts(Tail(recs))
       IN IF Head(recs).attempts > m THEN Head(recs).attempts ELSE m

\* The ids of the chunks in a sequence of chunks.
Ids(chunks) == {chunks[i].id : i \in 1..Len(chunks)}

\* The ids of the chunks held by the records of a queue.
QueueIds(q) == UNION {Ids(q[i].chunks) : i \in 1..Len(q)}

\* The ids of the chunks of the queue records that were never sent.
FreshIds(q) == UNION {Ids(q[i].chunks) : i \in {j \in 1..Len(q) : q[j].attempts = 0}}

\* The part of the component's state the recording callbacks share.
Heap == [ recState |-> recState, live |-> live,
          mediaRecorderRef |-> mediaRecorderRef, activeStreamRef |-> activeStreamRef,
          pendingChunksRef |-> pendingChunksRef, transcribingRef |-> transcribingRef,
          calls |-> calls, recording |-> recording ]

Commit(h) ==
  /\ recState' = h.recState
  /\ live' = h.live
  /\ mediaRecorderRef' = h.mediaRecorderRef
  /\ activeStreamRef' = h.activeStreamRef
  /\ pendingChunksRef' = h.pendingChunksRef
  /\ transcribingRef' = h.transcribingRef
  /\ calls' = h.calls
  /\ recording' = h.recording

\* stream.getTracks().forEach(t => t.stop()).  A recorder whose stream has no
\* live track left stops itself: its final dataavailable and stop events are
\* queued as one task.
StopTracks(h, s) ==
  [h EXCEPT !.live = @ \ {s},
            !.recState = [k \in StartIds |->
                            IF k = s /\ @[k] = "recording" THEN "stopping" ELSE @[k]]]

\* drainTranscriptionQueue reading the head of the queue without removing it.
drainTranscriptionQueue_keepsQueue(h) ==
  IF h.transcribingRef \/ h.pendingChunksRef = <<>> THEN h
  ELSE LET q == h.pendingChunksRef
           n == TakeCount(q, 0)
           taken == SubSeq(q, 1, n)
       IN [h EXCEPT !.transcribingRef = TRUE,
                    !.calls = @ \cup {[chunks |-> ConcatChunks(taken),
                                       attempt |-> MaxAttempts(taken)]}]

\* drainTranscriptionQueue refusing a queue below the threshold.
drainTranscriptionQueue_gated(h) ==
  IF \/ h.transcribingRef \/ h.pendingChunksRef = <<>>
     \/ BlobSize(ConcatChunks(h.pendingChunksRef)) < MIN_CHUNK_BYTES
  THEN h
  ELSE LET q == h.pendingChunksRef
           n == TakeCount(q, 0)
           taken == SubSeq(q, 1, n)
       IN [h EXCEPT !.pendingChunksRef = SubSeq(q, n + 1, Len(q)),
                    !.transcribingRef = TRUE,
                    !.calls = @ \cup {[chunks |-> ConcatChunks(taken),
                                       attempt |-> MaxAttempts(taken)]}]

\* drainTranscriptionQueue up to the await of transcribeAudio (lines 84-104):
\* the guard, the batch, the in-flight flag and the call.  Reading the blob
\* (line 102) touches no state of the component; the invocation is counted as
\* an outstanding call from the moment it passes the guard.
drainTranscriptionQueue(h) ==
  IF h.transcribingRef \/ h.pendingChunksRef = <<>> THEN h
  ELSE LET q == h.pendingChunksRef
           n == TakeCount(q, 0)
           taken == SubSeq(q, 1, n)
       IN [h EXCEPT !.pendingChunksRef = SubSeq(q, n + 1, Len(q)),
                    !.transcribingRef = TRUE,
                    !.calls = @ \cup {[chunks |-> ConcatChunks(taken),
                                       attempt |-> MaxAttempts(taken)]}]

\* stopRecording without lines 50-53: the tracks are left running.
stopRecording_keepsStream(h) ==
  LET r == h.mediaRecorderRef
      h1 == IF r # 0 /\ h.recState[r] = "recording"
            THEN [h EXCEPT !.recState[r] = "stopping"] ELSE h
  IN [h1 EXCEPT !.mediaRecorderRef = 0, !.recording = FALSE, !.transcribingRef = FALSE]

\* stopRecording (lines 44-56).
stopRecording(h) ==
  LET r == h.mediaRecorderRef
      h1 == IF r # 0 /\ h.recState[r] = "recording"
            THEN [h EXCEPT !.recState[r] = "stopping"] ELSE h
      h2 == [h1 EXCEPT !.mediaRecorderRef = 0]
      h3 == IF h2.activeStreamRef # 0
            THEN [StopTracks(h2, h2.activeStreamRef) EXCEPT !.activeStreamRef = 0]
            ELSE h2
  IN [h3 EXCEPT !.recording = FALSE, !.transcribingRef = FALSE]

\* recorder.ondataavailable (lines 139-144) for a non-empty chunk c.
ondataavailable(h, c) ==
  drainTranscriptionQueue(
    [h EXCEPT !.pendingChunksRef = Append(@, [chunks |-> <<c>>, attempts |-> 0])])

\* onstop emptying the queue instead of draining it.
onstop_discardsQueue(h) ==
  LET h1 == IF h.activeStreamRef # 0
            THEN [StopTracks(h, h.activeStreamRef) EXCEPT !.activeStreamRef = 0]
            ELSE h
  IN [h1 EXCEPT !.pendingChunksRef = <<>>]

\* recorder.onstop (lines 152-158).
onstop(h) ==
  LET h1 == IF h.activeStreamRef # 0
            THEN [StopTracks(h, h.activeStreamRef) EXCEPT !.activeStreamRef = 0]
            ELSE h
  IN drainTranscriptionQueue(h1)

\* requeue with the ceiling compared against the attempt just made instead of
\* the next one.
requeue_ceilingOffByOne(q, chunks, attempt) ==
  IF attempt <= MAX_ATTEMPTS
  THEN <<[chunks |-> chunks, attempts |-> attempt + 1]>> \o q
  ELSE q

\* requeue pushing the failed batch at the tail instead of the head.
requeue_atTail(q, chunks, attempt) ==
  IF attempt + 1 <= MAX_ATTEMPTS
  THEN q \o <<[chunks |-> chunks, attempts |-> attempt + 1]>>
  ELSE q

\* The catch block's retry decision (lines 116-120): the queue after a failure
\* of a batch of these chunks sent with this attempt count.
requeue(q, chunks, attempt) ==
  IF attempt + 1 <= MAX_ATTEMPTS
  THEN <<[chunks |-> chunks, attempts |-> attempt + 1]>> \o q
  ELSE q

\* The finally block without the reset of the in-flight flag (line 122).
drainFinally_keepsFlag(h) ==
  IF h.pendingChunksRef # <<>> THEN drainTranscriptionQueue(h) ELSE h

\* The finally block without its drain of a non-empty queue (lines 123-125).
drainFinally_noDrain(h) == [h EXCEPT !.transcribingRef = FALSE]

\* The finally block of drainTranscriptionQueue (lines 121-126).
drainFinally(h) ==
  LET h1 == [h EXCEPT !.transcribingRef = FALSE]
  IN IF h1.pendingChunksRef # <<>> THEN drainTranscriptionQueue(h1) ELSE h1

\* ------------------------------------------------------------ initial state
\* The state after the first render and its effects: the session effect
\* (lines 220-227) has called loadQuestion, which is awaiting the question.
Init ==
  /\ mounted = TRUE
  /\ recording = FALSE
  /\ loadingQuestion = TRUE
  /\ question = 0
  /\ answerText = <<>>
  /\ speechError = "none"
  /\ viewMode = "question"
  /\ nStarts = 0
  /\ startPc = [k \in StartIds |-> "idle"]
  /\ recState = [k \in StartIds |-> "none"]
  /\ live = {}
  /\ mediaRecorderRef = 0
  /\ activeStreamRef = 0
  /\ pendingChunksRef = <<>>
  /\ transcribingRef = FALSE
  /\ calls = {}
  /\ timers = 0
  /\ nChunks = 0
  /\ sessions = << [id |-> 1, results |-> <<>>] >>
  /\ localStorage = sessions
  /\ currentSessionId = 1
  /\ view = "session"
  /\ evaluations = {}
  /\ hist = [ lost |-> {},       \* chunks the queue reset discarded unsent
              dropped |-> {},    \* chunks of the batches given up for good
              appendLog |-> <<>>,\* chunks whose text was appended, in that order
              src |-> {},        \* chunks whose text is in answerText
              okTexts |-> <<>>,  \* texts appended since answerText was last reset
              qMark |-> 0,       \* chunks emitted before the current question began
              startedSinceStop |-> FALSE,  \* a start command came after the last stop
              atStop |-> {},     \* chunks queued or in flight when stopRecording last ran
              staleTimers |-> 0, \* pending retry timers set before stopRecording last ran
              sends |-> <<>>,    \* per chunk in a call or dropped: the calls that carried it
              prior |-> {} ]     \* chunks in a call when the last successful start ran

\* The send counts after the calls in newCalls were issued and the chunks in
\* gone were transcribed.
CountSends(sends, newCalls, gone) ==
  LET ids == UNION {Ids(c.chunks) : c \in newCalls}
  IN [id \in ((DOMAIN sends) \ gone) \cup ids |->
        (IF id \in DOMAIN sends THEN sends[id] ELSE 0) + (IF id \in ids THEN 1 ELSE 0)]

UiUnchanged == UNCHANGED << mounted, loadingQuestion, question, viewMode >>

AppUnchanged ==
  UNCHANGED << sessions, localStorage, currentSessionId, view, evaluations >>

\* ------------------------------------------------------------ recording
\* Click on "Start microphone": startRecording up to the await of
\* getUserMedia (lines 129-133).  The button runs startRecording while
\* recording is false and is disabled while loadingQuestion.
StartRecording ==
  /\ mounted
  /\ ~recording /\ ~loadingQuestion
  /\ nStarts < MaxStarts
  /\ nStarts' = nStarts + 1
  /\ startPc' = [startPc EXCEPT ![nStarts + 1] = "acquiring"]
  /\ speechError' = "none"
  /\ hist' = [hist EXCEPT !.startedSinceStop = TRUE]
  /\ UiUnchanged /\ AppUnchanged
  /\ UNCHANGED << recording, answerText, recState, live, mediaRecorderRef,
                  activeStreamRef, pendingChunksRef, transcribingRef, calls,
                  timers, nChunks >>

\* The heap after lines 133-162 ran without throwing for start command k.
startRecorder_keepsQueue(h, k) ==
  [h EXCEPT !.live = @ \cup {k},
            !.activeStreamRef = k,
            !.transcribingRef = FALSE,
            !.recState[k] = "recording",
            !.mediaRecorderRef = k,
            !.recording = TRUE]

startRecorder(h, k) ==
  [h EXCEPT !.live = @ \cup {k},
            !.activeStreamRef = k,
            !.pendingChunksRef = <<>>,
            !.transcribingRef = FALSE,
            !.recState[k] = "recording",
            !.mediaRecorderRef = k,
            !.recording = TRUE]

\* getUserMedia resolved and the recorder started (lines 133-162).
AcquireOk(k) ==
  /\ startPc[k] = "acquiring"
  /\ startPc' = [startPc EXCEPT ![k] = "done"]
  /\ Commit(startRecorder(Heap, k))
  /\ hist' = [hist EXCEPT !.lost = @ \cup FreshIds(pendingChunksRef),
                          !.prior = UNION {Ids(c.chunks) : c \in calls}]
  /\ UiUnchanged /\ AppUnchanged
  /\ UNCHANGED << answerText, speechError, nStarts, timers, nChunks >>

\* The rejection of getUserMedia swallowed: no message is set.
AcquireFail_silent(k) ==
  /\ startPc[k] = "acquiring"
  /\ startPc' = [startPc EXCEPT ![k] = "failed"]
  /\ recording' = FALSE
  /\ UiUnchanged /\ AppUnchanged
  /\ UNCHANGED << answerText, speechError, nStarts, recState, live,
                  mediaRecorderRef, activeStreamRef, pendingChunksRef,
                  transcribingRef, calls, timers, nChunks, hist >>

\* getUserMedia rejected (lines 133, 163-167).
AcquireFail(k) ==
  /\ startPc[k] = "acquiring"
  /\ startPc' = [startPc EXCEPT ![k] = "failed"]
  /\ speechError' = IF mounted THEN "mic" ELSE speechError
  /\ recording' = FALSE
  /\ UiUnchanged /\ AppUnchanged
  /\ UNCHANGED << answerText, nStarts, recState, live, mediaRecorderRef,
                  activeStreamRef, pendingChunksRef, transcribingRef, calls,
                  timers, nChunks, hist >>

\* getUserMedia resolved and new MediaRecorder threw (lines 133-134, 163-167).
RecorderCtorFail(k) ==
  /\ startPc[k] = "acquiring"
  /\ startPc' = [startPc EXCEPT ![k] = "failed"]
  /\ live' = live \cup {k}
  /\ speechError' = IF mounted THEN "mic" ELSE speechError
  /\ recording' = FALSE
  /\ UiUnchanged /\ AppUnchanged
  /\ UNCHANGED << answerText, nStarts, recState, mediaRecorderRef,
                  activeStreamRef, pendingChunksRef, transcribingRef, calls,
                  timers, nChunks, hist >>

\* getUserMedia resolved and recorder.start threw (lines 133-160, 163-167).
RecorderStartFail(k) ==
  /\ startPc[k] = "acquiring"
  /\ startPc' = [startPc EXCEPT ![k] = "failed"]
  /\ Commit([Heap EXCEPT !.live = @ \cup {k},
                         !.activeStreamRef = k,
                         !.pendingChunksRef = <<>>,
                         !.transcribingRef = FALSE,
                         !.recState[k] = "inactive",
                         !.recording = FALSE])
  /\ speechError' = IF mounted THEN "mic" ELSE speechError
  /\ hist' = [hist EXCEPT !.lost = @ \cup FreshIds(pendingChunksRef)]
  /\ UiUnchanged /\ AppUnchanged
  /\ UNCHANGED << answerText, nStarts, timers, nChunks >>

\* A timeslice of recorder k elapsed: dataavailable with a blob of sz bytes.
DataAvailable(k, sz) ==
  /\ recState[k] = "recording"
  /\ IF sz > 0
     THEN /\ nChunks < MaxChunks
          /\ nChunks' = nChunks + 1
          /\ Commit(ondataavailable(Heap, [id |-> nChunks + 1, size |-> sz]))
     ELSE /\ nChunks' = nChunks
          /\ Commit(Heap)
  /\ hist' = [hist EXCEPT !.sends = CountSends(@, calls' \ calls, {})]
  /\ UiUnchanged /\ AppUnchanged
  /\ UNCHANGED << answerText, speechError, nStarts, startPc, timers >>

\* The task queued when recorder k stopped: the final dataavailable, with a
\* blob of sz bytes, then stop.
RecorderStopTask(k, sz) ==
  /\ recState[k] = "stopping"
  /\ LET h0 == [Heap EXCEPT !.recState[k] = "inactive"]
     IN IF sz > 0
        THEN /\ nChunks < MaxChunks
             /\ nChunks' = nChunks + 1
             /\ Commit(onstop(ondataavailable(h0, [id |-> nChunks + 1, size |-> sz])))
        ELSE /\ nChunks' = nChunks
             /\ Commit(onstop(h0))
  /\ hist' = [hist EXCEPT !.sends = CountSends(@, calls' \ calls, {})]
  /\ UiUnchanged /\ AppUnchanged
  /\ UNCHANGED << answerText, speechError, nStarts, startPc, timers >>

\* A click that runs stopRecording: the microphone button while recording,
\* "Type answer instead", "Use microphone", or "Submit answer" (handleEvaluate
\* calls stopRecording before it awaits the evaluation).
StopCommand ==
  /\ mounted
  /\ Commit(stopRecording(Heap))
  /\ hist' = [hist EXCEPT !.startedSinceStop = FALSE, !.staleTimers = timers,
                          !.atStop = QueueIds(pendingChunksRef) \cup
                                     UNION {Ids(c.chunks) : c \in calls}]
  /\ UiUnchanged /\ AppUnchanged
  /\ UNCHANGED << answerText, speechError, nStarts, startPc, timers, nChunks >>

\* ------------------------------------------------------------ transcription
\* transcribeAudio resolved with text (lines 104-110, 121-126).
CallOk(c, text) ==
  /\ c \in calls
  /\ Commit(drainFinally([Heap EXCEPT !.calls = @ \ {c}]))
  /\ IF mounted /\ text # <<>>
     THEN /\ answerText' = appendTranscript(answerText, text)
          /\ hist' = [hist EXCEPT !.appendLog = @ \o [i \in 1..Len(c.chunks) |-> c.chunks[i].id],
                                  !.src = @ \cup Ids(c.chunks),
                                  !.okTexts = Append(@, text),
                                  !.sends = CountSends(@, calls' \ calls, Ids(c.chunks)),
                                  !.prior = @ \ Ids(c.chunks)]
     ELSE /\ answerText' = answerText
          /\ hist' = [hist EXCEPT !.sends = CountSends(@, calls' \ calls, Ids(c.chunks)),
                                  !.prior = @ \ Ids(c.chunks)]
  /\ UiUnchanged /\ AppUnchanged
  /\ UNCHANGED << speechError, nStarts, startPc, timers, nChunks >>

\* The catch block also clearing the transcript.
CallFail_resetsTranscript(c) ==
  /\ c \in calls
  /\ speechError' = IF mounted THEN "voice" ELSE speechError
  /\ answerText' = <<>>
  /\ LET h0 == [Heap EXCEPT !.calls = @ \ {c}]
         q1 == requeue(pendingChunksRef, c.chunks, c.attempt)
     IN /\ Commit(drainFinally([h0 EXCEPT !.pendingChunksRef = q1]))
        /\ IF q1 # pendingChunksRef
           THEN /\ timers < MaxTimers
                /\ timers' = timers + 1
                /\ hist' = [hist EXCEPT !.sends = CountSends(@, calls' \ calls, {})]
           ELSE /\ timers' = timers
                /\ hist' = [hist EXCEPT !.dropped = @ \cup Ids(c.chunks),
                                        !.sends = CountSends(@, calls' \ calls, {}),
                                        !.prior = @ \ Ids(c.chunks)]
  /\ UiUnchanged /\ AppUnchanged
  /\ UNCHANGED << nStarts, startPc, nChunks >>

\* transcribeAudio rejected (lines 111-126).
CallFail(c) ==
  /\ c \in calls
  /\ speechError' = IF mounted THEN "voice" ELSE speechError
  /\ LET h0 == [Heap EXCEPT !.calls = @ \ {c}]
         q1 == requeue(pendingChunksRef, c.chunks, c.attempt)
     IN /\ Commit(drainFinally([h0 EXCEPT !.pendingChunksRef = q1]))
        /\ IF q1 # pendingChunksRef
           THEN /\ timers < MaxTimers
                /\ timers' = timers + 1
                /\ hist' = [hist EXCEPT !.sends = CountSends(@, calls' \ calls, {})]
           ELSE /\ timers' = timers
                /\ hist' = [hist EXCEPT !.dropped = @ \cup Ids(c.chunks),
                                        !.sends = CountSends(@, calls' \ calls, {}),
                                        !.prior = @ \ Ids(c.chunks)]
  /\ UiUnchanged /\ AppUnchanged
  /\ UNCHANGED << answerText, nStarts, startPc, nChunks >>

\* A retry timer fires (line 119).
TimerFire ==
  /\ timers > 0
  /\ timers' = timers - 1
  /\ Commit(drainTranscriptionQueue(Heap))
  /\ hist' = [hist EXCEPT !.staleTimers = IF @ > 0 THEN @ - 1 ELSE 0,
                          !.sends = CountSends(@, calls' \ calls, {})]
  /\ UiUnchanged /\ AppUnchanged
  /\ UNCHANGED << answerText, speechError, nStarts, startPc, nChunks >>

\* ------------------------------------------------------------ questions
\* Click on "Next question": loadQuestion up to its await (lines 170-183).
LoadQuestion ==
  /\ mounted /\ ~loadingQuestion
  /\ question < MaxQuestions
  /\ loadingQuestion' = TRUE
  /\ speechError' = "none"
  /\ viewMode' = "question"
  /\ Commit(stopRecording(Heap))
  /\ hist' = [hist EXCEPT !.startedSinceStop = FALSE, !.staleTimers = timers,
                          !.atStop = QueueIds(pendingChunksRef) \cup
                                     UNION {Ids(c.chunks) : c \in calls}]
  /\ AppUnchanged
  /\ UNCHANGED << mounted, question, answerText, nStarts, startPc,
                  timers, nChunks >>

\* generateQuestion resolved (lines 189-191, 195).
LoadOk ==
  /\ loadingQuestion
  /\ loadingQuestion' = FALSE
  /\ IF mounted
     THEN /\ question' = question + 1
          /\ answerText' = <<>>
          /\ hist' = [hist EXCEPT !.src = {}, !.okTexts = <<>>, !.qMark = nChunks]
     ELSE UNCHANGED << question, answerText, hist >>
  /\ AppUnchanged
  /\ UNCHANGED << mounted, recording, speechError, viewMode, nStarts,
                  startPc, recState, live, mediaRecorderRef, activeStreamRef,
                  pendingChunksRef, transcribingRef, calls, timers, nChunks >>

\* generateQuestion rejected (lines 192-195).
LoadFail ==
  /\ loadingQuestion
  /\ loadingQuestion' = FALSE
  /\ AppUnchanged
  /\ UNCHANGED << mounted, recording, question, answerText,
                  speechError, viewMode, nStarts, startPc, recState, live, mediaRecorderRef,
                  activeStreamRef, pendingChunksRef, transcribingRef, calls,
                  timers, nChunks, hist >>

\* Click on "Clear" (line 344).
ClearAnswer ==
  /\ mounted
  /\ answerText # <<>>
  /\ answerText' = <<>>
  /\ hist' = [hist EXCEPT !.src = {}, !.okTexts = <<>>]
  /\ AppUnchanged
  /\ UNCHANGED << mounted, recording, loadingQuestion,
                  question, speechError, viewMode, nStarts, startPc, recState, live,
                  mediaRecorderRef, activeStreamRef, pendingChunksRef,
                  transcribingRef, calls, timers, nChunks >>

\* Click on "End Session": handleEndSession (App.tsx lines 92-94) shows the
\* summary, the page unmounts and its cleanup effect runs (lines 229-234).
Teardown ==
  /\ mounted
  /\ mounted' = FALSE
  /\ view' = "summary"
  /\ UNCHANGED << sessions, localStorage, currentSessionId, evaluations >>
  /\ Commit(stopRecording(Heap))
  /\ hist' = [hist EXCEPT !.startedSinceStop = FALSE, !.staleTimers = timers,
                          !.atStop = QueueIds(pendingChunksRef) \cup
                                     UNION {Ids(c.chunks) : c \in calls}]
  /\ UNCHANGED << loadingQuestion, question, answerText,
                  speechError, viewMode, nStarts, startPc, timers, nChunks >>

Next ==
  \/ StartRecording
  \/ \E k \in StartIds : AcquireOk(k)
  \/ \E k \in StartIds : AcquireFail(k)
  \/ \E k \in StartIds : RecorderCtorFail(k)
  \/ \E k \in StartIds : RecorderStartFail(k)
  \/ \E k \in StartIds, sz \in ChunkSizes : DataAvailable(k, sz)
  \/ \E k \in StartIds, sz \in ChunkSizes : RecorderStopTask(k, sz)
  \/ StopCommand
  \/ \E c \in calls, text \in Texts : CallOk(c, text)
  \/ \E c \in calls : CallFail(c)
  \/ TimerFire
  \/ LoadQuestion
  \/ LoadOk
  \/ LoadFail
  \/ ClearAnswer
  \/ Teardown

Spec == Init /\ [][Next]_vars

\* ------------------------------------------------------------ accumulator
\* The transcript accumulator on its own: successful transcriptions applied
\* to the running transcript one after the other (lines 105-110), and Clear.
AccAppend(text) ==
  /\ Len(hist.okTexts) < MaxAppends
  /\ answerText' = appendTranscript(answerText, text)
  /\ hist' = [hist EXCEPT !.okTexts = Append(@, text)]
  /\ AppUnchanged
  /\ UNCHANGED << mounted, recording, loadingQuestion, question, speechError,
                  viewMode, nStarts, startPc, recState, live, mediaRecorderRef,
                  activeStreamRef, pendingChunksRef, transcribingRef, calls,
                  timers, nChunks >>

NextAcc ==
  \/ \E text \in AccTexts : AccAppend(text)
  \/ ClearAnswer

SpecAcc == Init /\ [][NextAcc]_vars


\* ------------------------------------------------------------ the queue alone
\* The pipeline taken from a state of a recording in which the first chunk
\* is in flight and up to MaxQueued chunks arrived behind it.
QueueOfSizes(sizes) ==
  [i \in 1..Len(sizes) |->
     [chunks |-> <<[id |-> i + 1, size |-> sizes[i]]>>, attempts |-> 0]]

InitQueue ==
  /\ mounted = TRUE
  /\ recording = TRUE
  /\ loadingQuestion = FALSE
  /\ question = 1
  /\ answerText = <<>>
  /\ speechError = "none"
  /\ viewMode = "question"
  /\ nStarts = 1
  /\ startPc = [k \in StartIds |-> IF k = 1 THEN "done" ELSE "idle"]
  /\ recState = [k \in StartIds |-> IF k = 1 THEN "recording" ELSE "none"]
  /\ live = {1}
  /\ mediaRecorderRef = 1
  /\ activeStreamRef = 1
  /\ \E first \in QueuedSizes :
       \E sizes \in UNION {[1..n -> QueuedSizes] : n \in 0..MaxQueued} :
         /\ calls = {[chunks |-> <<[id |-> 1, size |-> first]>>, attempt |-> 0]}
         /\ pendingChunksRef = QueueOfSizes(sizes)
         /\ nChunks = 1 + Len(sizes)
  /\ transcribingRef = TRUE
  /\ timers = 0
  /\ sessions = << [id |-> 1, results |-> <<>>] >>
  /\ localStorage = sessions
  /\ currentSessionId = 1
  /\ view = "session"
  /\ evaluations = {}
  /\ hist = [ lost |-> {}, dropped |-> {}, appendLog |-> <<>>, src |-> {},
              okTexts |-> <<>>, qMark |-> 0, startedSinceStop |-> TRUE,
              atStop |-> {}, staleTimers |-> 0, sends |-> <<1>>, prior |-> {} ]

NextQueue ==
  \/ \E c \in calls, text \in Texts : CallOk(c, text)
  \/ \E c \in calls : CallFail(c)
  \/ TimerFire
  \/ \E k \in StartIds, sz \in ChunkSizes : DataAvailable(k, sz)
  \/ StopCommand
  \/ \E k \in StartIds, sz \in ChunkSizes : RecorderStopTask(k, sz)

SpecQueue == InitQueue /\ [][NextQueue]_vars

\* The pipeline under the scheduling of the event loop: every outstanding
\* transcribeAudio promise settles, every timer set by setTimeout fires, and
\* the task a stopped recorder queued runs.
CallSettles == \E c \in calls : CallFail(c) \/ \E text \in Texts : CallOk(c, text)

\* The initial states of the queue with at most MaxWaiting chunks waiting.
InitFairQueue == InitQueue /\ Len(pendingChunksRef) <= MaxWaiting

FairSpecQueue ==
  /\ InitFairQueue /\ [][NextQueue]_vars
  /\ WF_vars(CallSettles)
  /\ WF_vars(TimerFire)
  /\ WF_vars(\E k \in StartIds, sz \in ChunkSizes : RecorderStopTask(k, sz))

\* ------------------------------------------------------------ the session list
\* src/renderer/src/App.tsx.  Every setSessions is followed by the effect of
\* lines 52-54, which stores the new list, before another handler runs.

\* makeId (lines 28-31): an id no session of the list carries.
makeId(prev) == Len(prev) + 1

\* createSession (lines 33-42).
createSession(id) == [id |-> id, results |-> <<>>]

\* The updater of handleSaveResult appending the result to every session.
handleSaveResult_everySession(prev, sessionId, result) ==
  [i \in 1..Len(prev) |-> [prev[i] EXCEPT !.results = Append(@, result)]]

\* The updater passed to setSessions by handleSaveResult (lines 83-89).
handleSaveResult(prev, sessionId, result) ==
  [i \in 1..Len(prev) |->
     IF prev[i].id = sessionId
     THEN [prev[i] EXCEPT !.results = Append(@, result)]
     ELSE prev[i]]

\* The variables of the recording pipeline.
PipelineUnchanged ==
  UNCHANGED << recording, nStarts, startPc, recState, live, mediaRecorderRef,
               activeStreamRef, pendingChunksRef, transcribingRef, calls,
               timers, nChunks >>

\* The App at launch (lines 45-47): the list read from localStorage, its
\* first session current and shown if there is one, the first render's
\* effects done (the list stored, the question of the page being loaded).
InitApp ==
  /\ localStorage \in StoredLists
  /\ sessions = localStorage
  /\ currentSessionId = (IF sessions # <<>> THEN sessions[1].id ELSE 0)
  /\ view = (IF sessions # <<>> THEN "session" ELSE "onboarding")
  /\ evaluations = {}
  /\ mounted = (sessions # <<>>)
  /\ loadingQuestion = (sessions # <<>>)
  /\ recording = FALSE
  /\ question = 0
  /\ answerText = <<>>
  /\ speechError = "none"
  /\ viewMode = "question"
  /\ nStarts = 0
  /\ startPc = [k \in StartIds |-> "idle"]
  /\ recState = [k \in StartIds |-> "none"]
  /\ live = {}
  /\ mediaRecorderRef = 0
  /\ activeStreamRef = 0
  /\ pendingChunksRef = <<>>
  /\ transcribingRef = FALSE
  /\ calls = {}
  /\ timers = 0
  /\ nChunks = 0
  /\ hist = [ lost |-> {}, dropped |-> {}, appendLog |-> <<>>, src |-> {},
              okTexts |-> <<>>, qMark |-> 0, startedSinceStop |-> FALSE,
              atStop |-> {}, staleTimers |-> 0, sends |-> <<>>, prior |-> {} ]

\* handleRestart (lines 96-99), from the summary.
HandleRestart ==
  /\ view = "summary"
  /\ currentSessionId' = 0
  /\ view' = "onboarding"
  /\ PipelineUnchanged
  /\ UNCHANGED << mounted, loadingQuestion, question, answerText, speechError,
                  viewMode, sessions, localStorage, evaluations, hist >>

\* handleStart (lines 75-80), from the onboarding page; the page of the new
\* session mounts and its session effect loads the first question
\* (InterviewSessionPage.tsx lines 220-227).
HandleStart ==
  /\ view = "onboarding"
  /\ Len(sessions) < MaxSessions
  /\ LET newSession == createSession(makeId(sessions))
     IN /\ sessions' = <<newSession>> \o sessions
        /\ currentSessionId' = newSession.id
  /\ view' = "session"
  /\ localStorage' = sessions'
  /\ mounted' = TRUE
  /\ loadingQuestion' = TRUE
  /\ question' = 0
  /\ answerText' = <<>>
  /\ speechError' = "none"
  /\ viewMode' = "question"
  /\ hist' = [hist EXCEPT !.src = {}, !.okTexts = <<>>]
  /\ PipelineUnchanged
  /\ UNCHANGED evaluations

\* The textarea's onChange (InterviewSessionPage.tsx line 321).
TypeAnswer ==
  /\ mounted /\ viewMode = "question"
  /\ ~loadingQuestion /\ currentSessionId \notin evaluations
  /\ answerText' = <<"a">>
  /\ answerText' # answerText
  /\ hist' = [hist EXCEPT !.src = {}, !.okTexts = <<>>]
  /\ PipelineUnchanged /\ AppUnchanged
  /\ UNCHANGED << mounted, loadingQuestion, question, speechError, viewMode >>

\* Click on "Submit answer": handleEvaluate up to the await of evaluateAnswer
\* (InterviewSessionPage.tsx lines 199-204).
HandleEvaluate ==
  /\ mounted /\ viewMode = "question"
  /\ ~loadingQuestion /\ currentSessionId \notin evaluations
  /\ question # 0 /\ Trim(answerText) # <<>>
  /\ Commit(stopRecording(Heap))
  /\ hist' = [hist EXCEPT !.startedSinceStop = FALSE, !.staleTimers = timers,
                          !.atStop = QueueIds(pendingChunksRef) \cup
                                     UNION {Ids(c.chunks) : c \in calls}]
  /\ evaluations' = evaluations \cup {currentSessionId}
  /\ UNCHANGED << mounted, loadingQuestion, question, answerText, speechError,
                  viewMode, nStarts, startPc, timers, nChunks,
                  sessions, localStorage, currentSessionId, view >>

\* evaluateAnswer resolved for the page of session s: onSaveResult, that is
\* handleSaveResult with the id of that session (InterviewSessionPage.tsx
\* lines 205-216, App.tsx lines 82-90 and 122).
EvaluateOk(s, result) ==
  /\ s \in evaluations
  /\ evaluations' = evaluations \ {s}
  /\ sessions' = handleSaveResult(sessions, s, result)
  /\ localStorage' = sessions'
  /\ viewMode' = IF mounted /\ s = currentSessionId THEN "feedback" ELSE viewMode
  /\ PipelineUnchanged
  /\ UNCHANGED << mounted, loadingQuestion, question, answerText, speechError,
                  currentSessionId, view, hist >>

\* evaluateAnswer rejected (InterviewSessionPage.tsx lines 213-217).
EvaluateFail(s) ==
  /\ s \in evaluations
  /\ evaluations' = evaluations \ {s}
  /\ PipelineUnchanged
  /\ UNCHANGED << mounted, loadingQuestion, question, answerText, speechError,
                  viewMode, sessions, localStorage, currentSessionId, view, hist >>

NextApp ==
  \/ HandleStart
  \/ HandleRestart
  \/ Teardown
  \/ LoadQuestion
  \/ LoadOk
  \/ LoadFail
  \/ TypeAnswer
  \/ ClearAnswer
  \/ HandleEvaluate
  \/ \E s \in evaluations, result \in Results : EvaluateOk(s, result)
  \/ \E s \in evaluations : EvaluateFail(s)

SpecApp == InitApp /\ [][NextApp]_vars

\* ------------------------------------------------------------ properties
\* The ids of the chunks held by the outstanding calls.
CallIds == UNION {Ids(c.chunks) : c \in calls}

\* C1: single-flight.  In every reachable state at most one transcribeAudio
\* call is outstanding.
C1_SingleFlight == Cardinality(calls) <= 1

\* The trimmed texts joined by exactly one space each.
RECURSIVE JoinTrimmed(_)
JoinTrimmed(texts) ==
  IF texts = <<>> THEN <<>>
  ELSE IF Len(texts) = 1 THEN Trim(texts[1])
  ELSE JoinTrimmed(SubSeq(texts, 1, Len(texts) - 1)) \o <<" ">> \o Trim(texts[Len(texts)])

\* The texts that are not blank, in the same order.
NonBlank(texts) == SelectSeq(texts, LAMBDA t : Trim(t) # <<>>)

\* C2 as stated: after the successful transcriptions T1..TN, starting from an
\* empty transcript, the running transcript is T1.trim() + " " + ... + " " +
\* TN.trim().
C2_JoinAllTexts == answerText = JoinTrimmed(hist.okTexts)

\* C2 amended: the running transcript is the trimmed texts that are not blank,
\* joined in completion order by exactly one space each; the same text
\* returned twice appears twice.
C2_JoinNonBlankTexts == answerText = JoinTrimmed(NonBlank(hist.okTexts))

\* Three texts were appended, the same non-blank text twice in a row among
\* them, and a blank one.
C2_Witness ==
  /\ Len(hist.okTexts) = 3
  /\ hist.okTexts[1] = hist.okTexts[2]
  /\ Trim(hist.okTexts[1]) # <<>>
  /\ Trim(hist.okTexts[3]) = <<>>
  /\ answerText = Trim(hist.okTexts[1]) \o <<" ">> \o Trim(hist.okTexts[1])

\* C3: texts are appended in the emission order of the chunks they cover:
\* the chunks whose text has been appended appear in increasing emission order.
C3_EmissionOrder ==
  \A i, j \in 1..Len(hist.appendLog) :
    i < j => hist.appendLog[i] < hist.appendLog[j]

\* C4: retry ceiling.  No queue record and no call carries more than 3
\* attempts; a failed batch is given up exactly when it was sent with 3
\* attempts already made (its 3rd retry), and is put back at the head with one
\* more attempt otherwise; the chunks of a batch given up are never queued or
\* sent again.
C4_RetryCeiling ==
  /\ [](/\ \A i \in 1..Len(pendingChunksRef) :
             pendingChunksRef[i].attempts \in 0..MAX_ATTEMPTS
        /\ \A c \in calls : c.attempt \in 0..MAX_ATTEMPTS
        /\ hist.dropped \cap (QueueIds(pendingChunksRef) \cup CallIds) = {})
  /\ [][\A c \in calls :
          CallFail(c) =>
            IF c.attempt = MAX_ATTEMPTS
            THEN hist.dropped' = hist.dropped \cup Ids(c.chunks)
            ELSE /\ hist.dropped' = hist.dropped
                 /\ Ids(c.chunks) \subseteq
                      QueueIds(pendingChunksRef') \cup UNION {Ids(d.chunks) : d \in calls'}]_vars

\* A batch was given up after its 3rd retry failed.
C4_Witness == hist.dropped # {}

\* C5: transient failures are retried silently.  The transcription warning is
\* shown only once a batch has been given up for good.
C5_WarningOnlyOnDrop == speechError = "voice" => hist.dropped # {}

QueueReset ==
  /\ \E k \in StartIds : startPc[k] = "acquiring" /\ startPc'[k] # "acquiring"
  /\ pendingChunksRef' = <<>>

C7_NoTextFromEarlierQuestion == \A id \in hist.src : id > hist.qMark

C9_SingleAcquisition ==
  /\ Cardinality({k \in StartIds : startPc[k] = "acquiring"} \cup live) <= 1
  /\ live \subseteq {activeStreamRef}

\* C10: once a stop command, a question transition or the teardown has been
\* processed, the capture stream handle stays released until the next start
\* command.  Stated for the runs in which no start command failed.
C10_ReleasedUntilNextStart ==
  (~hist.startedSinceStop /\ \A k \in StartIds : startPc[k] # "failed")
    => (activeStreamRef = 0 /\ ~recording)

\* C11: a rejection of getUserMedia during start shows a message, is not
\* retried (no acquisition is started by it, no timer is set), and leaves
\* recording false with the chunk queue and the transcript as they were.
C11_AcquireFailure ==
  [][\A k \in StartIds :
       AcquireFail(k) =>
         /\ mounted => speechError' = "mic"
         /\ ~recording'
         /\ pendingChunksRef' = pendingChunksRef
         /\ answerText' = answerText
         /\ nStarts' = nStarts
         /\ \A j \in StartIds : startPc'[j] = "acquiring" => startPc[j] = "acquiring" /\ j # k
         /\ timers' = timers /\ calls' = calls]_vars

\* The second start command failed to acquire the device while a chunk was
\* waiting in the queue; the message is shown and recording is false.
C11_Witness ==
  /\ mounted /\ nStarts = 2 /\ startPc[2] = "failed"
  /\ recState[2] = "none" /\ 2 \notin live
  /\ speechError = "mic" /\ ~recording
  /\ pendingChunksRef # <<>>

\* C12: a failed transcription call, retried or given up, leaves the running
\* transcript as it was.
C12_FailureKeepsTranscript ==
  [][\A c \in calls : CallFail(c) => answerText' = answerText]_vars

\* In one recording, the text of chunk 1 was appended, then the batch of
\* chunk 2 failed until it was given up; the text of chunk 1 is still there.
C12_Witness ==
  /\ nStarts = 1 /\ recState[1] = "recording"
  /\ hist.src = {1} /\ answerText = <<"a">>
  /\ hist.dropped = {2}

\* C13: stopping recording or switching questions invalidates the pending
\* retry timers: no timer set before stopRecording last ran fires a drain.
C13_StopInvalidatesTimers == [][TimerFire => hist.staleTimers = 0]_vars

\* a is an initial segment of b.
IsPrefix(a, b) == Len(a) <= Len(b) /\ SubSeq(b, 1, Len(a)) = a

\* C14: session history is kept.  The stored list equals the session list in
\* every state; saving a result for session s appends it at the end of the
\* results of s, which exists, and leaves every other session as it was;
\* starting a session only puts a new, empty record with an unused id in
\* front; and no step removes or reorders sessions or results.
C14_SessionHistoryKept ==
  /\ [](localStorage = sessions)
  /\ [][\A s \in evaluations, r \in Results :
          EvaluateOk(s, r) =>
            /\ Len(sessions') = Len(sessions)
            /\ \E i \in 1..Len(sessions) : sessions[i].id = s
            /\ \A i \in 1..Len(sessions) :
                 sessions'[i] = IF sessions[i].id = s
                                THEN [id |-> s, results |-> Append(sessions[i].results, r)]
                                ELSE sessions[i]]_vars
  /\ [][HandleStart =>
          /\ Len(sessions') = Len(sessions) + 1
          /\ Tail(sessions') = sessions
          /\ sessions'[1].results = <<>>
          /\ \A i \in 1..Len(sessions) : sessions[i].id # sessions'[1].id]_vars
  /\ [][\E d \in {0, 1} :
          /\ Len(sessions') = Len(sessions) + d
          /\ \A i \in 1..Len(sessions) :
               /\ sessions'[i + d].id = sessions[i].id
               /\ IsPrefix(sessions[i].results, sessions'[i + d].results)]_vars

\* Launched with two stored sessions; a result was appended after the stored
\* one of the session shown at launch, a third session was started in front
\* and got a result of its own, and the oldest session is as it was.
C14_Witness ==
  /\ sessions = << [id |-> 3, results |-> <<"r2">>],
                   [id |-> 2, results |-> <<"r0", "r1">>],
                   [id |-> 1, results |-> <<"r0">>] >>
  /\ localStorage = sessions

\* C15: threshold gating.  While the only recorder is recording, every batch
\* sent has a cumulative size of at least MIN_CHUNK_BYTES.
C15_ThresholdGating ==
  (nStarts = 1 /\ recState[1] = "recording")
    => \A c \in calls : BlobSize(c.chunks) >= MIN_CHUNK_BYTES

\* The byte size of the first n records of a queue.
PrefixSize(q, n) == BlobSize(ConcatChunks(SubSeq(q, 1, n)))

\* C16: batch formation.  The drain run by a successful completion over a
\* non-empty queue issues exactly one call; its batch is the shortest prefix
\* of the queue whose size reaches MIN_CHUNK_BYTES, or the whole queue, its
\* chunks in queue order; the records not taken stay queued in their order.
C16_BatchFormation ==
  [][\A c \in calls, text \in Texts :
       (CallOk(c, text) /\ pendingChunksRef # <<>>) =>
         LET q == pendingChunksRef
         IN \E n \in 1..Len(q) :
              /\ PrefixSize(q, n) >= MIN_CHUNK_BYTES \/ n = Len(q)
              /\ \A m \in 1..(n - 1) : PrefixSize(q, m) < MIN_CHUNK_BYTES
              /\ pendingChunksRef' = SubSeq(q, n + 1, Len(q))
              /\ \E d \in calls' :
                   /\ d \notin calls
                   /\ calls' = (calls \ {c}) \cup {d}
                   /\ d.chunks = ConcatChunks(SubSeq(q, 1, n))]_vars

\* While recording, the first call succeeded and the drain took chunks 2 and
\* 3, which together reach the threshold, and left chunk 4 in the queue.
C16_Witness ==
  /\ recState[1] = "recording" /\ hist.appendLog = <<1>>
  /\ \E d \in calls :
       /\ d.attempt = 0 /\ Len(d.chunks) = 2 /\ Ids(d.chunks) = {2, 3}
       /\ d.chunks[1].id = 2
       /\ BlobSize(d.chunks) >= MIN_CHUNK_BYTES
  /\ Len(pendingChunksRef) = 1 /\ QueueIds(pendingChunksRef) = {4}

\* C17: forced flush.  When the recorder's stop task runs its drain with no
\* call marked in flight over a non-empty queue smaller than MIN_CHUNK_BYTES
\* in total, exactly one call is issued and its batch is the whole queue; with
\* a call marked in flight the chunks stay queued behind it.
C17_ForcedFlush ==
  [][\A k \in StartIds, sz \in ChunkSizes :
       LET q0 == IF sz > 0
                 THEN Append(pendingChunksRef,
                             [chunks |-> <<[id |-> nChunks + 1, size |-> sz]>>,
                              attempts |-> 0])
                 ELSE pendingChunksRef
       IN (RecorderStopTask(k, sz) /\ q0 # <<>>) =>
            IF transcribingRef
            THEN pendingChunksRef' = q0 /\ calls' = calls
            ELSE PrefixSize(q0, Len(q0)) < MIN_CHUNK_BYTES =>
                   /\ pendingChunksRef' = <<>>
                   /\ \E d \in calls' :
                        /\ d \notin calls
                        /\ calls' = calls \cup {d}
                        /\ d.chunks = ConcatChunks(q0)]_vars

\* Recording was stopped with chunk 1 in flight and chunks 2 and 3, smaller
\* than the threshold together, in the queue; the stop task sent both in one
\* batch while the first call is still outstanding.
C17_Witness ==
  /\ ~recording /\ recState[1] = "inactive" /\ pendingChunksRef = <<>>
  /\ hist.atStop = {1, 2, 3}
  /\ \E c \in calls : Ids(c.chunks) = {1} /\ c.attempt = 0
  /\ \E d \in calls :
       /\ Ids(d.chunks) = {2, 3} /\ d.attempt = 0
       /\ BlobSize(d.chunks) < MIN_CHUNK_BYTES

\* The chunks that were sent at least once: every emitted chunk except those
\* still waiting for their first send and those a queue reset discarded.
SentIds == (1..nChunks) \ (FreshIds(pendingChunksRef) \cup hist.lost)

\* The batches that are being retried, in flight or waiting.
RetriedBatches ==
  {c.chunks : c \in {d \in calls : d.attempt > 0}} \cup
  {pendingChunksRef[i].chunks :
     i \in {j \in 1..Len(pendingChunksRef) : pendingChunksRef[j].attempts > 0}}

\* C18: head-of-queue priority.  No chunk emitted after the chunks of a batch
\* being retried has been sent, unless it travels in that batch.
C18_RetriedBeforeLater ==
  \A b \in RetriedBatches :
    \A i \in Ids(b), j \in SentIds : j > i => j \in Ids(b)

\* C19: a batch that failed with fewer than MAX_ATTEMPTS attempts goes back
\* to the head of the queue as one record, its payload in the same order and
\* its attempts one more than the batch's, the queue in its order behind it:
\* the drain that follows takes a prefix of exactly that queue, so the batch
\* it sends starts with the failed payload and counts the new attempts.
C19_RequeueAtHead ==
  [][\A c \in calls :
       (CallFail(c) /\ c.attempt < MAX_ATTEMPTS) =>
         LET q1 == <<[chunks |-> c.chunks, attempts |-> c.attempt + 1]>>
                     \o pendingChunksRef
         IN \E n \in 1..Len(q1) :
              /\ pendingChunksRef' = SubSeq(q1, n + 1, Len(q1))
              /\ \E d \in calls' :
                   /\ d \notin calls
                   /\ calls' = (calls \ {c}) \cup {d}
                   /\ d.chunks = ConcatChunks(SubSeq(q1, 1, n))
                   /\ d.attempt >= c.attempt + 1
                   /\ d.attempt = MaxAttempts(SubSeq(q1, 1, n))]_vars

\* While recording, chunk 1 failed and was sent again together with chunk 2;
\* that batch failed too and is in flight as one unit with 2 attempts, chunks
\* 3 and 4 waiting behind it in their order.
C19_Witness ==
  /\ recState[1] = "recording"
  /\ \E d \in calls :
       /\ d.attempt = 2 /\ Len(d.chunks) = 2
       /\ d.chunks[1].id = 1 /\ d.chunks[2].id = 2
  /\ Len(pendingChunksRef) = 2
  /\ pendingChunksRef[1].chunks[1].id = 3 /\ pendingChunksRef[2].chunks[1].id = 4

\* C20: the in-flight flag is set only while a call is outstanding, and every
\* outcome of a call clears it before the next drain: after the completion
\* either a new call has been issued or the flag is clear and nothing waits.
C20_FlagCleared ==
  /\ [](transcribingRef => calls # {})
  /\ [][\A c \in calls :
          (CallFail(c) \/ \E text \in Texts : CallOk(c, text)) =>
            IF transcribingRef'
            THEN calls' \ calls # {}
            ELSE pendingChunksRef' = <<>>]_vars

\* A call succeeded, a call was retried and then given up, and the pipeline is
\* at rest with the flag clear.
C20_Witness ==
  /\ hist.appendLog # <<>> /\ hist.dropped # {}
  /\ ~transcribingRef /\ calls = {} /\ pendingChunksRef = <<>> /\ timers = 0

\* C21: backoff.  After a failure below the retry ceiling the failed batch is
\* not sent again before a retry timer has fired: the failure itself issues no
\* call that carries the failed chunks.
C21_BackoffBeforeResend ==
  [][\A c \in calls :
       (CallFail(c) /\ c.attempt + 1 <= MAX_ATTEMPTS) =>
         Ids(c.chunks) \cap UNION {Ids(d.chunks) : d \in calls' \ calls} = {}]_vars

\* C22: a successful start clears the queue, and every chunk the capture source
\* emits is enqueued as a record of its own with 0 attempts: after the handler
\* that record is the last of the queue, or the chunk was sent at once in a
\* batch whose attempt count is that of the records it was batched with.
C22_StartResetsQueue ==
  /\ [][\A k \in StartIds : AcquireOk(k) => pendingChunksRef' = <<>>]_vars
  /\ [][\A k \in StartIds, sz \in ChunkSizes \ {0} :
          (DataAvailable(k, sz) \/ RecorderStopTask(k, sz)) =>
            LET rec == [chunks |-> <<[id |-> nChunks + 1, size |-> sz]>>, attempts |-> 0]
                q == Append(pendingChunksRef, rec)
            IN \/ /\ pendingChunksRef' # <<>>
                  /\ pendingChunksRef'[Len(pendingChunksRef')] = rec
               \/ \E d \in calls' \ calls :
                    /\ (nChunks + 1) \in Ids(d.chunks)
                    /\ d.attempt = MaxAttempts(q)
                    /\ pendingChunksRef' = <<>>]_vars

\* The second start succeeded while a chunk of the first recording waited in
\* the queue: the chunk is gone and the queue of the new recording is empty.
C22_Witness ==
  /\ \A k \in StartIds : startPc[k] # "failed"
  /\ nStarts = 2 /\ startPc[2] = "done" /\ recState[2] = "recording"
  /\ hist.lost # {} /\ pendingChunksRef = <<>>

\* C23: a drain attempt made while a batch is in flight, or with no chunk
\* queued, is a no-op.  The drains that are nothing but an attempt are the retry
\* timer's and the one of a stop task that delivers no audio.
C23_DrainNoOp ==
  [][((TimerFire \/ \E k \in StartIds : RecorderStopTask(k, 0))
        /\ (calls # {} \/ pendingChunksRef = <<>>)) =>
       /\ calls' = calls
       /\ pendingChunksRef' = pendingChunksRef
       /\ transcribingRef' = transcribingRef
       /\ answerText' = answerText]_vars

\* C24: every batch handed to the transcription service holds at least one
\* chunk, and every chunk in it holds audio.
C24_BatchNonEmpty ==
  \A c \in calls :
    /\ c.chunks # <<>>
    /\ \A i \in 1..Len(c.chunks) : c.chunks[i].size > 0

\* A batch below the threshold is in flight: the single chunk of 8000 bytes
\* that the recorder's stop task flushed.
C24_Witness ==
  /\ nStarts = 1 /\ recState[1] = "inactive"
  /\ \E c \in calls : Len(c.chunks) = 1 /\ BlobSize(c.chunks) = 8000 /\ c.attempt = 0
  /\ pendingChunksRef = <<>>

Quiescent == pendingChunksRef = <<>> /\ calls = {} /\ ~transcribingRef

\* C26: quiescence.  Once recording has stopped, with every call settling and
\* every timer firing, the pipeline comes to rest: the queue is empty, no call
\* is outstanding and the in-flight flag is clear.
C26_Quiescence == (~recording) ~> Quiescent

\* The recording was stopped with chunks waiting; one text was appended, one
\* batch was given up after its retries, and the pipeline is at rest with no
\* timer left.
C26_Witness ==
  /\ ~recording /\ recState[1] = "inactive" /\ hist.atStop # {}
  /\ hist.appendLog # <<>> /\ hist.dropped # {}
  /\ Quiescent /\ timers = 0

\* C27: every chunk that was dropped for good has itself been sent
\* MAX_ATTEMPTS + 1 times: a chunk batched with a retried record is not
\* dropped after fewer sends.
C27_DroppedAfterFourSends ==
  \A id \in hist.dropped : hist.sends[id] = MAX_ATTEMPTS + 1

\* The ids of a sequence of queue records or of a sequence of chunks, one
\* entry per occurrence.
RECURSIVE QueueIdSeq(_)
QueueIdSeq(q) ==
  IF q = <<>> THEN <<>>
  ELSE [i \in 1..Len(q[1].chunks) |-> q[1].chunks[i].id] \o QueueIdSeq(Tail(q))

NoRepeat(ids) == \A i, j \in 1..Len(ids) : ids[i] = ids[j] => i = j

\* C28: each emitted chunk is in at most one place: once in the queue, in
\* one outstanding batch, transcribed, dropped, or discarded with a queue; its
\* text is appended at most once.
C28_ChunkInOnePlace ==
  /\ NoRepeat(QueueIdSeq(pendingChunksRef))
  /\ \A c \in calls : NoRepeat([i \in 1..Len(c.chunks) |-> c.chunks[i].id])
  /\ \A c, d \in calls : c # d => Ids(c.chunks) \cap Ids(d.chunks) = {}
  /\ QueueIds(pendingChunksRef) \cap CallIds = {}
  /\ NoRepeat(hist.appendLog)
  /\ LET pending == QueueIds(pendingChunksRef) \cup CallIds
         appended == {hist.appendLog[i] : i \in 1..Len(hist.appendLog)}
     IN /\ pending \cap (appended \cup hist.dropped \cup hist.lost) = {}
        /\ appended \cap (hist.dropped \cup hist.lost) = {}
        /\ hist.dropped \cap hist.lost = {}

\* Chunk 1 failed and is in flight again in one batch with chunk 2, which
\* arrived while it was outstanding.
C28_Witness ==
  /\ nStarts = 1 /\ recState[1] = "recording" /\ nChunks = 2
  /\ \E c \in calls : Len(c.chunks) = 2 /\ c.attempt >= 1
  /\ calls # {} /\ Cardinality(calls) = 1 /\ pendingChunksRef = <<>>

\* C29: recording isolation.  While a recording is active that was started
\* after the last stop and holds the only live stream, a batch that was in
\* flight when that recording started and then fails is neither put back into
\* the queue nor sent again.
C29_RecordingIsolation ==
  [][\A c \in calls :
       (recording /\ hist.startedSinceStop /\ live = {activeStreamRef} /\ CallFail(c)) =>
         (Ids(c.chunks) \cap hist.prior)
           \cap (QueueIds(pendingChunksRef') \cup UNION {Ids(d.chunks) : d \in calls'}) = {}]_vars

\* C30: a start command that fails leaves no capture device held: with the
\* only start command failed and recording off, no acquired stream is live.
C30_FailedStartHoldsNothing ==
  (nStarts = 1 /\ startPc[1] = "failed" /\ ~recording) => live = {}

====
